---- MODULE Spec2Model ----
(***************************************************************************)
(* Model of helmper as found in src/pkg/registry/registry.go, in three     *)
(* specifications over one state:                                          *)
(*   Spec         the patch-enabled import pipeline (internal.Program,     *)
(*                "Import enabled and Copacetic enabled" branch);          *)
(*   SpecExists   registry.Exists;                                         *)
(*   SpecProgram  internal.Program up to that branch, with its detached    *)
(*                tasks, and internal.modify.                              *)
(*                                                                         *)
(* Range loops that take the address of the loop variable (&i) are         *)
(* modelled with one loop variable per iteration (Go >= 1.22): the program *)
(* builds pointer-keyed collections out of &i everywhere (lines 412-414,   *)
(* 524, 545, 719) and is only meaningful under that semantics.             *)
(***************************************************************************)
EXTENDS Integers, Sequences, FiniteSets, TLC

(* ---------------------------------------------------------------------- *)
(* Bounds                                                                  *)
(* ---------------------------------------------------------------------- *)
MaxImgs == 2
MaxRegs == 3
MaxDiscovered == 2
MaxRules == 2
MaxRevisits == 1

(* ---------------------------------------------------------------------- *)
(* Strings are sequences of tokens so that the path derivations are        *)
(* computed the way the code computes them.                                *)
(* ---------------------------------------------------------------------- *)
Names == { <<"a", "/", "b">>, <<"a", "-", "b">>, <<"c">> }
Tags == { <<"1">> }
PatchFlags == { "nil", "true", "false" }

\* registry.Image as far as Program reads it: ImageName(), Tag, Patch
Image == [Name : Names, Tag : Tags, Patch : PatchFlags]

\* trivy report as far as Program reads it: r.Metadata.OS and r.Results; one
\* answer for each case of the switch of lines 538-558
Report ==
  { [OS |-> "windows", Results |-> {"os-pkgs"}],
    [OS |-> "debian", Results |-> {}],
    [OS |-> "debian", Results |-> {"os-pkgs"}] }

ReportsFolder == "reports"
TarsFolder == "tars"

Range(s) == { s[j] : j \in 1..Len(s) }

SeqsUpTo(S, n) == UNION { [1..m -> S] : m \in 1..n }

\* candidate lists: non-empty, pairwise distinct references
Candidates == { s \in SeqsUpTo(Image, MaxImgs) :
                  \A a, b \in 1..Len(s) : a # b => s[a].Name # s[b].Name }

RECURSIVE ReplaceAll(_, _, _)
\* strings.ReplaceAll(s, old, new) for a one-token old
ReplaceAll(s, old, new) ==
  IF s = <<>> THEN <<>>
  ELSE <<IF Head(s) = old THEN new ELSE Head(s)>> \o ReplaceAll(Tail(s), old, new)

\* filepath.Join(folder, file)
Join(folder, file) == <<folder, "/">> \o file

\* i.ImageName()
ImageName(i) == i.Name

\* the prescan path without the replacement of the separators
PrescanFileNameRaw(i) ==
  Join(ReportsFolder,
       <<"prescan-">> \o ImageName(i) \o <<":">> \o i.Tag \o <<".json">>)

\* lines 561-563: the path the prescan report is written to
PrescanFileName(i) ==
  Join(ReportsFolder,
       <<"prescan-">> \o ReplaceAll(ImageName(i) \o <<":">> \o i.Tag \o <<".json">>, "/", "-"))

\* lines 678-680: the path the postscan report is written to
PostscanFileName(i) ==
  Join(ReportsFolder,
       <<"postscan-">> \o ReplaceAll(ImageName(i) \o <<":">> \o i.Tag \o <<".json">>, "/", "-"))

\* lines 583-587: reportFilePaths[i]
ReportFilePath(i) ==
  Join(ReportsFolder,
       ReplaceAll(<<"prescan-">> \o ImageName(i) \o <<":">> \o i.Tag \o <<".json">>, "/", "-"))

\* lines 588-592: reportPostFilePaths[i]
ReportPostFilePath(i) ==
  Join(ReportsFolder,
       ReplaceAll(<<"postscan-">> \o ImageName(i) \o <<":">> \o i.Tag \o <<".json">>, "/", "-"))

\* lines 593-597: outFilePaths[i]
OutFilePath(i) ==
  Join(TarsFolder,
       ReplaceAll(ImageName(i) \o <<":">> \o i.Tag \o <<".tar">>, "/", "-"))

\* copa.SupportedOS(r.Metadata.OS)
SupportedOS(os) == os = "debian"

\* trivy.ContainsOsPkgs(r.Results)
ContainsOsPkgs(results) == "os-pkgs" \in results

(* ---------------------------------------------------------------------- *)
(* State                                                                   *)
(* ---------------------------------------------------------------------- *)
VARIABLES
  imgs,            \* candidate images returned by IdentifyImportCandidates
  reportsClean,    \* importConfig.Import.Copacetic.Output.Reports.Clean
  tarsClean,       \* importConfig.Import.Copacetic.Output.Tars.Clean
  ignoreErrors,    \* importConfig.Import.Copacetic.IgnoreErrors
  cosignEnabled,   \* importConfig.Import.Cosign.Enabled
  pc,              \* position of Program in the branch
  k,               \* index of the running range loop over imgs
  patch,           \* []*registry.Image: addresses of loop variables
  push,            \* []*registry.Image: addresses of loop variables
  scanReport,      \* address -> report the prescan returned, for the scanned ones
  reportFilePaths,     \* map[*registry.Image]string
  reportPostFilePaths, \* map[*registry.Image]string
  outFilePaths,        \* map[*registry.Image]string
  deferred,        \* the cleanup closure of line 601 has been registered
  files,           \* paths present on the filesystem
  written,         \* paths written at some time during the run
  patcherCall,     \* << >>, then the arguments of po.Run once it is called
  patchDone,       \* addresses whose patch attempt has finished
  archived,        \* addresses the patcher produced an archive for
  pushed,          \* addresses copied to the registries
  rescanned,       \* images whose postscan report was written
  rescanSent,      \* images sent to the scanner by the rescan loop
  signed,          \* addresses signed
  err,             \* value returned by Program
  \* Exists, lines 180-196
  registries,      \* the argument registries []Registry
  present,         \* URLs of the registries that hold ref:tag
  ri,              \* index of the running range loop over registries
  m,               \* the map[string]bool under construction
  probed,          \* indices whose r.Exist call has returned
  probeErr,        \* indices whose r.Exist call failed to reach its registry
  exPc,            \* position of Exists
  \* Program up to the import of the images, lines 328-480, and modify
  gPc,             \* position of Program
  gErr,            \* value returned by Program
  chartTable,      \* the task of the go statement of line 381
  valuePathTable,  \* the task of the go statement of line 418
  exclude,         \* c.Images.Exclude: the Ref of each entry
  excludeCopacetic, \* c.Images.ExcludeCopacetic: the Ref of each entry
  modifyRules,     \* c.Images.Modify
  mirrorConfig,    \* []bootstrap.MirrorConfigSection
  discovered,      \* the images co.Run finds in the chart
  heap,            \* the registry.Image objects, a pointer is an index
  cm,              \* the chart's map[*registry.Image][]string
  visited          \* keys the range loop of line 260 has produced

vars == << imgs, reportsClean, tarsClean, ignoreErrors, cosignEnabled, pc, k,
           patch, push, scanReport, reportFilePaths, reportPostFilePaths,
           outFilePaths, deferred, files, written, patcherCall, patchDone,
           archived,
           pushed, rescanned, rescanSent, signed, err,
           registries, present, ri, m, probed, probeErr, exPc,
           gPc, gErr, chartTable, valuePathTable, exclude, excludeCopacetic,
           modifyRules, mirrorConfig, discovered, heap, cm, visited >>

existsVars == << registries, present, ri, m, probed, probeErr, exPc >>

programVars ==
  << gPc, gErr, chartTable, valuePathTable, exclude, excludeCopacetic,
     modifyRules, mirrorConfig, discovered, heap, cm, visited >>

\* what the patch-enabled branch leaves alone
otherVars == << existsVars, programVars >>

config == << imgs, reportsClean, tarsClean, ignoreErrors, cosignEnabled >>

\* one variable shared by all the iterations of the loop
LoopVarAddrShared(n) == 1

\* the address of the loop variable i of iteration n of `for _, i := range imgs`
LoopVarAddr(n) == n

\* *p for an address produced by LoopVarAddr
Deref(p) == imgs[p]

\* Exists is not running
ExistsNotCalled ==
  /\ registries = << >>
  /\ present = {}
  /\ ri = 1
  /\ m = << >>
  /\ probed = {}
  /\ probeErr = {}
  /\ exPc = "returned"

\* Program before the branch is not followed
ProgramNotFollowed ==
  /\ gPc = "importImages"
  /\ gErr = "nil"
  /\ chartTable = "finished"
  /\ valuePathTable = "finished"
  /\ exclude = << >>
  /\ excludeCopacetic = << >>
  /\ modifyRules = << >>
  /\ mirrorConfig = << >>
  /\ discovered = << >>
  /\ heap = << >>
  /\ cm = << >>
  /\ visited = {}

Init ==
  /\ ExistsNotCalled
  /\ ProgramNotFollowed
  /\ imgs \in Candidates
  /\ reportsClean \in BOOLEAN
  /\ tarsClean \in BOOLEAN
  /\ ignoreErrors \in BOOLEAN
  /\ cosignEnabled \in BOOLEAN
  /\ pc = "scan"
  /\ k = 1
  /\ patch = <<>>
  /\ push = <<>>
  /\ scanReport = << >>
  /\ reportFilePaths = << >>
  /\ reportPostFilePaths = << >>
  /\ outFilePaths = << >>
  /\ deferred = FALSE
  /\ files = {}
  /\ written = {}
  /\ patcherCall = << >>
  /\ patchDone = {}
  /\ archived = {}
  /\ pushed = {}
  /\ rescanned = {}
  /\ rescanSent = {}
  /\ signed = {}
  /\ err = "nil"


(* ---------------------------------------------------------------------- *)
(* Leaving Program: the deferred closure runs on every return that         *)
(* follows its registration (lines 601-615).                               *)
(* ---------------------------------------------------------------------- *)

\* lines 602-609: reports are removed when Reports.Clean
CleanReports(fs) ==
  IF reportsClean
    THEN fs \ (Range(reportFilePaths) \cup Range(reportPostFilePaths))
    ELSE fs

\* lines 610-614: the archives are guarded by Reports.Clean as well
CleanTars(fs) ==
  IF reportsClean THEN fs \ Range(outFilePaths) ELSE fs

\* the closure of lines 601-615
Cleanup(fs) == CleanTars(CleanReports(fs))

\* `return e` with the filesystem fs at that point
Return(e, fs) ==
  /\ pc' = "done"
  /\ err' = e
  /\ files' = IF deferred THEN Cleanup(fs) ELSE fs

(* ---------------------------------------------------------------------- *)
(* The prescan loop, lines 514-573                                         *)
(* ---------------------------------------------------------------------- *)

\* the test of line 517 without its negation
ExcludedInverted(i) == i.Patch = "true"

\* lines 516-517: i.Patch != nil && !*i.Patch
Excluded(i) == i.Patch = "false"

\* the switch of lines 538-558 without the SupportedOS case
DecisionIgnoreOS(r) ==
  IF ContainsOsPkgs(r.Results) THEN "patch" ELSE "push"

\* the switch of lines 541-551 with its two cases exchanged
DecisionSwapped(r) ==
  IF SupportedOS(r.OS)
    THEN IF ContainsOsPkgs(r.Results) THEN "push" ELSE "patch"
    ELSE "push"

\* lines 538-558: the list the scanned image is appended to
Decision(r) ==
  IF SupportedOS(r.OS)
    THEN IF ContainsOsPkgs(r.Results) THEN "patch" ELSE "push"
    ELSE "push"

\* lines 514-527: an iteration for an image excluded from patching
ScanExcluded ==
  /\ pc = "scan"
  /\ k <= Len(imgs)
  /\ Excluded(imgs[k])
  /\ \E stringOk \in BOOLEAN :
       IF stringOk
         THEN /\ push' = Append(push, LoopVarAddr(k))
              /\ k' = k + 1
              /\ UNCHANGED << pc, err, files >>
         ELSE /\ Return("string", files)
              /\ UNCHANGED << push, k >>
  /\ UNCHANGED << otherVars, config, patch, scanReport, reportFilePaths,
                  reportPostFilePaths, outFilePaths, deferred, written,
                  patcherCall, patchDone, archived, pushed, rescanned,
                  rescanSent, signed >>

\* lines 529-536 with the error recorded and the loop carried on
ScanFailsContinue ==
  /\ pc = "scan"
  /\ k <= Len(imgs)
  /\ ~Excluded(imgs[k])
  /\ \E e \in {"string", "scan"} : err' = e
  /\ k' = k + 1
  /\ UNCHANGED << otherVars, config, pc, files, patch, push, scanReport,
                  reportFilePaths, reportPostFilePaths, outFilePaths,
                  deferred, written, patcherCall, patchDone, archived,
                  pushed, rescanned, rescanSent, signed >>

\* lines 529-536: i.String() or so.Scan(ref) fails
ScanFails ==
  /\ pc = "scan"
  /\ k <= Len(imgs)
  /\ ~Excluded(imgs[k])
  /\ \E e \in {"string", "scan"} : Return(e, files)
  /\ UNCHANGED << otherVars, config, k, patch, push, scanReport, reportFilePaths,
                  reportPostFilePaths, outFilePaths, deferred, written,
                  patcherCall, patchDone, archived, pushed, rescanned,
                  rescanSent, signed >>

\* lines 529-573: an iteration whose scan returns a report
ScanImage ==
  /\ pc = "scan"
  /\ k <= Len(imgs)
  /\ ~Excluded(imgs[k])
  /\ \E r \in Report, writeOk \in BOOLEAN :
       /\ scanReport' = (LoopVarAddr(k) :> r) @@ scanReport
       /\ IF Decision(r) = "patch"
            THEN /\ patch' = Append(patch, LoopVarAddr(k))
                 /\ push' = push
            ELSE /\ push' = Append(push, LoopVarAddr(k))
                 /\ patch' = patch
       /\ IF writeOk
            THEN /\ files' = files \cup {PrescanFileName(imgs[k])}
                 /\ written' = written \cup {PrescanFileName(imgs[k])}
                 /\ k' = k + 1
                 /\ UNCHANGED << pc, err >>
            ELSE /\ Return("write", files)
                 /\ UNCHANGED << written, k >>
  /\ UNCHANGED << otherVars, config, reportFilePaths, reportPostFilePaths, outFilePaths,
                  deferred, patcherCall, patchDone, archived, pushed,
                  rescanned, rescanSent, signed >>

\* lines 575-615 followed by the patcher, the import of line 624 left out
ComputePathsSkipImport ==
  /\ pc = "scan"
  /\ k > Len(imgs)
  /\ LET all == Range(patch \o push) IN
       /\ reportFilePaths' = [p \in all |-> ReportFilePath(Deref(p))]
       /\ reportPostFilePaths' = [p \in all |-> ReportPostFilePath(Deref(p))]
       /\ outFilePaths' = [p \in all |-> OutFilePath(Deref(p))]
  /\ deferred' = TRUE
  /\ pc' = "patch"
  /\ UNCHANGED << otherVars, config, k, patch, push, scanReport, files, written,
                  patcherCall, patchDone, archived, pushed, rescanned,
                  rescanSent, signed, err >>

\* lines 575-615: the three path maps and the registration of the cleanup
ComputePaths ==
  /\ pc = "scan"
  /\ k > Len(imgs)
  /\ LET all == Range(patch \o push) IN
       /\ reportFilePaths' = [p \in all |-> ReportFilePath(Deref(p))]
       /\ reportPostFilePaths' = [p \in all |-> ReportPostFilePath(Deref(p))]
       /\ outFilePaths' = [p \in all |-> OutFilePath(Deref(p))]
  /\ deferred' = TRUE
  /\ pc' = "import"
  /\ UNCHANGED << otherVars, config, k, patch, push, scanReport, files, written,
                  patcherCall, patchDone, archived, pushed, rescanned,
                  rescanSent, signed, err >>

(* ---------------------------------------------------------------------- *)
(* Import of the push list, lines 617-627                                  *)
(* ---------------------------------------------------------------------- *)

\* ImportOption.Run and SignOption.Run work through their images in order
\* and stop at the first failure: the outcomes are the number of images
\* done and whether the call succeeded
RunOutcomes(l) ==
  { o \in [n : 0..Len(l), ok : BOOLEAN] : o.ok => o.n = Len(l) }

\* the patch list handed to the ImportOption
ImportImgsPatch == patch

\* line 620: Imgs of the ImportOption
ImportImgs == push

\* lines 617-627: iOpts.Run(ctx) copies Imgs in order and returns its first
\* failure
ImportRun ==
  /\ pc = "import"
  /\ \E o \in RunOutcomes(ImportImgs) :
       /\ pushed' = pushed \cup { ImportImgs[j] : j \in 1..o.n }
       /\ IF o.ok
            THEN /\ pc' = "patch"
                 /\ UNCHANGED << err, files >>
            ELSE Return("push", files)
  /\ UNCHANGED << otherVars, config, k, patch, push, scanReport, reportFilePaths,
                  reportPostFilePaths, outFilePaths, deferred, written,
                  patcherCall, patchDone, archived, rescanned, rescanSent,
                  signed >>

(* ---------------------------------------------------------------------- *)
(* copa.PatchOption{Imgs: patch}.Run(ctx, reportFilePaths, outFilePaths),  *)
(* lines 629-650                                                           *)
(* ---------------------------------------------------------------------- *)

\* index of the first image of the patch list the patcher fails on, 0 if none
FirstFailure(failed) ==
  IF \E j \in 1..Len(patch) : patch[j] \in failed
    THEN CHOOSE j \in 1..Len(patch) :
           /\ patch[j] \in failed
           /\ \A h \in 1..(j - 1) : patch[h] \notin failed
    ELSE 0

\* a PatchOption whose IgnoreErrors is left at its zero value
PatchIgnoreErrorsUnset == FALSE

\* line 644: IgnoreErrors of the PatchOption
PatchIgnoreErrors == ignoreErrors

\* the patcher works through Imgs; a failure aborts unless IgnoreErrors
PatchImages ==
  /\ pc = "patch"
  /\ patcherCall' = << [Imgs |-> patch, reports |-> reportFilePaths,
                         out |-> outFilePaths] >>
  /\ \E failed \in SUBSET Range(patch) :
       LET f == FirstFailure(failed)
           abort == f # 0 /\ ~PatchIgnoreErrors
           tried == IF abort THEN { patch[j] : j \in 1..f } ELSE Range(patch)
           done == tried \ failed
           tars == { outFilePaths[p] : p \in done }
       IN /\ patchDone' = IF abort THEN { patch[j] : j \in 1..(f - 1) } ELSE tried
          /\ archived' = done
          /\ written' = written \cup tars
          /\ IF abort
               THEN Return("patch", files \cup tars)
               ELSE /\ files' = files \cup tars
                    /\ pc' = "pushPatched"
                    /\ UNCHANGED err
  /\ UNCHANGED << otherVars, config, k, patch, push, scanReport, reportFilePaths,
                  reportPostFilePaths, outFilePaths, deferred, pushed,
                  rescanned, rescanSent, signed >>

\* the patcher's images are copied to the registries, patched or (after an
\* ignored failure) as they are
PushPatched ==
  /\ pc = "pushPatched"
  /\ \E o \in RunOutcomes(patch) :
       /\ pushed' = pushed \cup { patch[j] : j \in 1..o.n }
       /\ IF o.ok
            THEN /\ pc' = "rescan"
                 /\ k' = 1
                 /\ UNCHANGED << err, files >>
            ELSE /\ Return("push", files)
                 /\ UNCHANGED k
  /\ UNCHANGED << otherVars, config, patch, push, scanReport, reportFilePaths,
                  reportPostFilePaths, outFilePaths, deferred, written,
                  patcherCall, patchDone, archived, rescanned, rescanSent,
                  signed >>

(* ---------------------------------------------------------------------- *)
(* The rescan loop, lines 669-695                                          *)
(* ---------------------------------------------------------------------- *)

\* a rescan loop that ranges over the patch list
RescanListPatched == [x \in 1..Len(patch) |-> Deref(patch[x])]

\* line 670: the images the rescan loop ranges over
RescanList == imgs

\* lines 672-675: so.Scan(ref) fails
RescanFails ==
  /\ pc = "rescan"
  /\ k <= Len(RescanList)
  /\ rescanSent' = rescanSent \cup {RescanList[k]}
  /\ Return("rescan", files)
  /\ UNCHANGED << otherVars, config, k, patch, push, scanReport, reportFilePaths,
                  reportPostFilePaths, outFilePaths, deferred, written,
                  patcherCall, patchDone, archived, pushed, rescanned,
                  signed >>

\* lines 671-690: an iteration whose scan returns a report; the report is
\* serialised into the postscan file and read by nothing else
RescanImage ==
  /\ pc = "rescan"
  /\ k <= Len(RescanList)
  /\ rescanSent' = rescanSent \cup {RescanList[k]}
  /\ \E writeOk \in BOOLEAN :
       /\ IF writeOk
            THEN /\ files' = files \cup {PostscanFileName(RescanList[k])}
                 /\ written' = written \cup {PostscanFileName(RescanList[k])}
                 /\ rescanned' = rescanned \cup {RescanList[k]}
                 /\ k' = k + 1
                 /\ UNCHANGED << pc, err >>
            ELSE /\ Return("write", files)
                 /\ UNCHANGED << written, rescanned, k >>
  /\ UNCHANGED << otherVars, config, patch, push, scanReport, reportFilePaths,
                  reportPostFilePaths, outFilePaths, deferred, patcherCall,
                  patchDone, archived, pushed, signed >>

(* ---------------------------------------------------------------------- *)
(* Signing, lines 697-712, and the return of line 748                      *)
(* ---------------------------------------------------------------------- *)

\* a SignOption that is given the patch list only
SignImgsPatch == patch

\* line 701: Imgs of the SignOption
SignImgs == patch \o push

\* line 699 with Cosign disabled: Program returns nil
ReturnUnsigned ==
  /\ pc = "rescan"
  /\ k > Len(RescanList)
  /\ ~cosignEnabled
  /\ Return("nil", files)
  /\ UNCHANGED << otherVars, config, k, patch, push, scanReport, reportFilePaths,
                  reportPostFilePaths, outFilePaths, deferred, written,
                  patcherCall, patchDone, archived, pushed, rescanned,
                  rescanSent, signed >>

\* lines 699-712: signo.Run() signs in order and returns its first failure
SignRun ==
  /\ pc = "rescan"
  /\ k > Len(RescanList)
  /\ cosignEnabled
  /\ \E o \in RunOutcomes(SignImgs) :
       /\ signed' = signed \cup { SignImgs[j] : j \in 1..o.n }
       /\ Return(IF o.ok THEN "nil" ELSE "sign", files)
  /\ UNCHANGED << otherVars, config, k, patch, push, scanReport, reportFilePaths,
                  reportPostFilePaths, outFilePaths, deferred, written,
                  patcherCall, patchDone, archived, pushed, rescanned,
                  rescanSent >>

Next ==
  \/ ScanExcluded
  \/ ScanFails
  \/ ScanImage
  \/ ComputePaths
  \/ ImportRun
  \/ PatchImages
  \/ PushPatched
  \/ RescanFails
  \/ RescanImage
  \/ ReturnUnsigned
  \/ SignRun

Spec == Init /\ [][Next]_vars

(* ---------------------------------------------------------------------- *)
(* Exists, lines 180-196, with Registry.Exist (176-178) and Exist          *)
(* (198-224)                                                               *)
(* ---------------------------------------------------------------------- *)

\* the patch-enabled branch is not entered
PipelineNotEntered ==
  /\ imgs = << >>
  /\ reportsClean = FALSE
  /\ tarsClean = FALSE
  /\ ignoreErrors = FALSE
  /\ cosignEnabled = FALSE
  /\ pc = "before"
  /\ k = 1
  /\ patch = << >>
  /\ push = << >>
  /\ scanReport = << >>
  /\ reportFilePaths = << >>
  /\ reportPostFilePaths = << >>
  /\ outFilePaths = << >>
  /\ deferred = FALSE
  /\ files = {}
  /\ written = {}
  /\ patcherCall = << >>
  /\ patchDone = {}
  /\ archived = {}
  /\ pushed = {}
  /\ rescanned = {}
  /\ rescanSent = {}
  /\ signed = {}
  /\ err = "nil"

pipelineVars ==
  << imgs, reportsClean, tarsClean, ignoreErrors, cosignEnabled, pc, k,
     patch, push, scanReport, reportFilePaths, reportPostFilePaths,
     outFilePaths, deferred, files, written, patcherCall, patchDone,
     archived, pushed, rescanned, rescanSent, signed, err >>

URLs == { "u1", "u2" }

\* lines 17-22: Registry as far as Exists and Exist read it
Registry == [URL : URLs, PlainHTTP : BOOLEAN]

\* lines 198-224: Exist returns (false, err) when the repository or the
\* credential store cannot be set up, and (err == nil, err) after the fetch;
\* the fetch fails when the registry is not reached or does not hold ref:tag
Exist(reached, found) ==
  LET fetchErr == ~(reached /\ found)
  IN [exists |-> ~fetchErr, err |-> fetchErr]

\* lines 176-178: r.Exist probes r.URL + "/" + name
RegistryExist(r, reached) == Exist(reached, r.URL \in present)

\* lines 183-191: the closure turns an error into false
Coalesce(res) == IF res.err THEN FALSE ELSE res.exists

InitExists ==
  /\ PipelineNotEntered
  /\ ProgramNotFollowed
  /\ registries \in SeqsUpTo(Registry, MaxRegs)
  /\ present \in SUBSET URLs
  /\ ri = 1
  /\ m = << >>
  /\ probed = {}
  /\ probeErr = {}
  /\ exPc = "loop"

\* a loop in which the call that does not return is left behind
ExistsProbeHangsDetached ==
  /\ exPc = "loop"
  /\ ri <= Len(registries)
  /\ ri' = ri + 1
  /\ UNCHANGED << pipelineVars, programVars, registries, present, m, probed, probeErr,
                  exPc >>

\* lines 182-188: the call r.Exist(ctx, ref, tag) of the running iteration
\* does not return
ExistsProbeHangs ==
  /\ exPc = "loop"
  /\ ri <= Len(registries)
  /\ exPc' = "hung"
  /\ UNCHANGED << pipelineVars, programVars, registries, present, ri, m, probed, probeErr >>

\* lines 182-193: one iteration, the closure called in place and its result
\* stored under r.URL
ExistsProbe ==
  /\ exPc = "loop"
  /\ ri <= Len(registries)
  /\ \E reached \in BOOLEAN :
       LET r == registries[ri]
           exists == Coalesce(RegistryExist(r, reached))
       IN /\ m' = (r.URL :> exists) @@ m
          /\ probeErr' = IF reached THEN probeErr ELSE probeErr \cup {ri}
  /\ probed' = probed \cup {ri}
  /\ ri' = ri + 1
  /\ UNCHANGED << pipelineVars, programVars, registries, present, exPc >>

\* line 195: return m
ExistsReturn ==
  /\ exPc = "loop"
  /\ ri > Len(registries)
  /\ exPc' = "returned"
  /\ UNCHANGED << pipelineVars, programVars, registries, present, ri, m, probed, probeErr >>

NextExists ==
  \/ ExistsProbe
  \/ ExistsProbeHangs
  \/ ExistsReturn

SpecExists == InitExists /\ [][NextExists]_vars

(* ---------------------------------------------------------------------- *)
(* Program from SetupHelm to the import of the images, lines 373-480, its  *)
(* two detached tasks, and modify, lines 256-326.  One chart is followed.  *)
(* References are sequences of tokens.                                     *)
(* ---------------------------------------------------------------------- *)

\* registry.Image as far as modify reads and writes it; String() gives
\* Registry/Repository
DiscoveredImage ==
  [Registry : {"docker.io", "quay.io"},
   Repository : { <<"lib", "/", "app">>, <<"app">> },
   Patch : {"nil"}] \ { [Registry |-> "quay.io",
                         Repository |-> <<"lib", "/", "app">>,
                         Patch |-> "nil"] }

\* a fixed order of the images
Rank(i) ==
  IF i.Registry = "quay.io" THEN 3
  ELSE IF i.Repository = <<"app">> THEN 2 ELSE 1

\* what co.Run can find: pairwise distinct images; the map they are put in
\* forgets the order they were found in, so one order is followed for
\* each set
DiscoveredLists ==
  { l \in SeqsUpTo(DiscoveredImage, MaxDiscovered) :
      \A a, b \in 1..Len(l) : a < b => Rank(l[a]) < Rank(l[b]) }

\* c.Images.Exclude and c.Images.ExcludeCopacetic, each entry by its Ref
ExcludeLists == { << >>, << <<"docker.io", "/", "lib">> >> }
ExcludeCopaceticLists == { << >>, << <<"docker.io">> >> }

\* entries of c.Images.Modify: From and To
ModifyRule ==
  { [From |-> <<"docker.io">>, To |-> <<"quay.io">>],
    [From |-> <<"docker.io">>, To |-> <<"docker.io", "/", "lib">>],
    [From |-> << >>, To |-> <<"quay.io">>] }

\* the lists c.Images.Modify is drawn from: no rule twice
ModifyLists ==
  { << >> } \cup
  { l \in SeqsUpTo(ModifyRule, MaxRules) :
      \A a, b \in 1..Len(l) : a # b => l[a] # l[b] }

\* bootstrap.MirrorConfigSection: Registry and Mirror
MirrorLists ==
  { << >>,
    << [Registry |-> "docker.io", Mirror |-> "mirror.local"] >>,
    << [Registry |-> "docker.io", Mirror |-> "mirror.local"],
       [Registry |-> "docker.io", Mirror |-> "mirror.other"] >> }

\* i.String()
ImageString(i) == <<i.Registry, "/">> \o i.Repository

\* registry.RefToImage(ref)
RefToImage(ref) ==
  [Registry |-> ref[1], Repository |-> SubSeq(ref, 3, Len(ref)),
   Patch |-> "nil"]

\* strings.HasPrefix(s, prefix)
HasPrefix(s, prefix) ==
  /\ Len(prefix) <= Len(s)
  /\ SubSeq(s, 1, Len(prefix)) = prefix

RECURSIVE ReplaceFirst(_, _, _)
\* strings.Replace(s, old, new, 1)
ReplaceFirst(s, old, new) ==
  IF HasPrefix(s, old) THEN new \o SubSeq(s, Len(old) + 1, Len(s))
  ELSE IF s = << >> THEN s
  ELSE <<Head(s)>> \o ReplaceFirst(Tail(s), old, new)

\* lines 283-286: the rules of c.Images.Modify that apply to the reference r
MatchingRules(r) ==
  SelectSeq(modifyRules, LAMBDA mo : mo.From # << >> /\ HasPrefix(r, mo.From))

\* lines 267-273: some entry of c.Images.Exclude is a prefix of r
ExcludeHit(r) == \E x \in 1..Len(exclude) : HasPrefix(r, exclude[x])

\* lines 274-281: some entry of c.Images.ExcludeCopacetic is a prefix of r
ExcludeCopaceticHit(r) ==
  \E x \in 1..Len(excludeCopacetic) : HasPrefix(r, excludeCopacetic[x])

\* lines 313-315: the entries of mirrorConfig for the registry reg
MirrorsOf(reg) == SelectSeq(mirrorConfig, LAMBDA mc : mc.Registry = reg)

InitProgram ==
  /\ PipelineNotEntered
  /\ ExistsNotCalled
  /\ gPc = "setupHelm"
  /\ gErr = "nil"
  /\ chartTable = "notStarted"
  /\ valuePathTable = "notStarted"
  /\ exclude \in ExcludeLists
  /\ excludeCopacetic \in ExcludeCopaceticLists
  /\ modifyRules \in ModifyLists
  /\ mirrorConfig \in MirrorLists
  /\ discovered \in DiscoveredLists
  /\ heap = << >>
  /\ cm = << >>
  /\ visited = {}

programConfig ==
  << exclude, excludeCopacetic, modifyRules, mirrorConfig, discovered >>

\* `return e` in Program before the branch on the import mode
ProgramReturn(e) ==
  /\ gPc' = "returned"
  /\ gErr' = e

\* lines 373-379: bootstrap.SetupHelm
SetupHelm ==
  /\ gPc = "setupHelm"
  /\ \E ok \in BOOLEAN :
       IF ok THEN gPc' = "goChartTable" /\ UNCHANGED gErr
             ELSE ProgramReturn("setupHelm")
  /\ UNCHANGED << pipelineVars, existsVars, programConfig, chartTable,
                  valuePathTable, heap, cm, visited >>

\* lines 380-384: go output.RenderChartTable(&charts, ...)
GoRenderChartTable ==
  /\ gPc = "goChartTable"
  /\ chartTable' = "running"
  /\ gPc' = "discover"
  /\ UNCHANGED << pipelineVars, existsVars, programConfig, gErr,
                  valuePathTable, heap, cm, visited >>

\* lines 386-399: co.Run returns the chart's images, each with the value
\* paths it was found at (here the number of the image), or an error
Discover ==
  /\ gPc = "discover"
  /\ \E ok \in BOOLEAN :
       IF ok
         THEN /\ heap' = discovered
              /\ cm' = [p \in 1..Len(discovered) |-> p]
              /\ gPc' = "modify"
              /\ UNCHANGED gErr
         ELSE /\ ProgramReturn("discover")
              /\ UNCHANGED << heap, cm >>
  /\ UNCHANGED << pipelineVars, existsVars, programConfig, chartTable,
                  valuePathTable, visited >>

\* lines 260-323: one iteration of `for i, vs := range m`.  The range
\* produces every key that was in the map when it began and is still there;
\* a key inserted by the loop body may be produced or skipped.
ModifyIteration ==
  /\ gPc = "modify"
  /\ \E p \in DOMAIN cm \ visited :
       /\ p > Len(discovered) =>
            Cardinality(visited \ (1..Len(discovered))) < MaxRevisits
       /\ LET i == heap[p]
              vs == cm[p]
              r == ImageString(i)
              flag == IF ExcludeCopaceticHit(r) THEN "false" ELSE i.Patch
              rules == MatchingRules(r)
          IN \E stringOk \in BOOLEAN, f \in 0..Len(rules) :
               IF ~stringOk
                 THEN /\ f = 0
                      /\ ProgramReturn("modify")
                      /\ UNCHANGED << heap, cm, visited >>
                 ELSE
                   LET n == IF f = 0 THEN Len(rules) ELSE f - 1
                       imgs2 == [x \in 1..n |->
                                   [RefToImage(ReplaceFirst(r, rules[x].From,
                                                            rules[x].To))
                                      EXCEPT !.Patch = flag]]
                       ms == MirrorsOf(i.Registry)
                       reg == IF f = 0 /\ ms # << >>
                                THEN ms[1].Mirror ELSE i.Registry
                       kept == IF ExcludeHit(r) \/ rules # << >>
                                 THEN DOMAIN cm \ {p} ELSE DOMAIN cm
                       ptrs == (Len(heap) + 1)..(Len(heap) + n)
                   IN /\ heap' = [heap EXCEPT ![p] =
                                    [i EXCEPT !.Patch = flag,
                                              !.Registry = reg]] \o imgs2
                      /\ cm' = [q \in kept \cup ptrs |->
                                  IF q \in ptrs THEN vs ELSE cm[q]]
                      /\ visited' = visited \cup {p}
                      /\ IF f = 0 THEN UNCHANGED << gPc, gErr >>
                                  ELSE ProgramReturn("modify")
  /\ UNCHANGED << pipelineVars, existsVars, programConfig, chartTable,
                  valuePathTable >>

\* line 325 and lines 401-404: the range is exhausted and modify returns nil
ModifyReturn ==
  /\ gPc = "modify"
  /\ DOMAIN cm \cap (1..Len(discovered)) \subseteq visited
  /\ gPc' = "addImages"
  /\ UNCHANGED << pipelineVars, existsVars, programConfig, gErr, chartTable,
                  valuePathTable, heap, cm, visited >>

\* lines 406-415: the images of the configuration go into a map of their
\* own under the placeholder chart
AddConfigImages ==
  /\ gPc = "addImages"
  /\ gPc' = "goValuePathTable"
  /\ UNCHANGED << pipelineVars, existsVars, programConfig, gErr, chartTable,
                  valuePathTable, heap, cm, visited >>

\* lines 417-421: go func() { RenderHelmValuePathToImageTable(...) }()
GoRenderValuePathTable ==
  /\ gPc = "goValuePathTable"
  /\ valuePathTable' = "running"
  /\ gPc' = "identify"
  /\ UNCHANGED << pipelineVars, existsVars, programConfig, gErr, chartTable,
                  heap, cm, visited >>

\* lines 423-449: helm.IdentifyImportCandidates and the overview tables
IdentifyImportCandidates ==
  /\ gPc = "identify"
  /\ \E ok \in BOOLEAN :
       IF ok THEN gPc' = "importCharts" /\ UNCHANGED gErr
             ELSE ProgramReturn("identify")
  /\ UNCHANGED << pipelineVars, existsVars, programConfig, chartTable,
                  valuePathTable, heap, cm, visited >>

\* lines 451-480: the import of the charts and their signing
ImportCharts ==
  /\ gPc = "importCharts"
  /\ \E e \in {"nil", "chartImport", "chartSign"} :
       IF e = "nil" THEN gPc' = "importImages" /\ UNCHANGED gErr
                    ELSE ProgramReturn(e)
  /\ UNCHANGED << pipelineVars, existsVars, programConfig, chartTable,
                  valuePathTable, heap, cm, visited >>

\* an import of the images that returns once both tasks have finished
ImportImagesJoined ==
  /\ gPc = "importImages"
  /\ chartTable # "running"
  /\ valuePathTable # "running"
  /\ \E e \in {"nil", "import"} : ProgramReturn(e)
  /\ UNCHANGED << pipelineVars, existsVars, programConfig, chartTable,
                  valuePathTable, heap, cm, visited >>

\* lines 482-748: the import of the images, here by its result only, and
\* the return of Program
ImportImages ==
  /\ gPc = "importImages"
  /\ \E e \in {"nil", "import"} : ProgramReturn(e)
  /\ UNCHANGED << pipelineVars, existsVars, programConfig, chartTable,
                  valuePathTable, heap, cm, visited >>

\* the task of line 381 comes to its end
ChartTableRendered ==
  /\ chartTable = "running"
  /\ chartTable' = "finished"
  /\ UNCHANGED << pipelineVars, existsVars, programConfig, gPc, gErr,
                  valuePathTable, heap, cm, visited >>

\* the task of line 418 comes to its end
ValuePathTableRendered ==
  /\ valuePathTable = "running"
  /\ valuePathTable' = "finished"
  /\ UNCHANGED << pipelineVars, existsVars, programConfig, gPc, gErr,
                  chartTable, heap, cm, visited >>

\* the steps of Program itself
ProgramStep ==
  \/ SetupHelm
  \/ GoRenderChartTable
  \/ Discover
  \/ ModifyIteration
  \/ ModifyReturn
  \/ AddConfigImages
  \/ GoRenderValuePathTable
  \/ IdentifyImportCandidates
  \/ ImportCharts
  \/ ImportImages

NextProgram ==
  \/ SetupHelm
  \/ GoRenderChartTable
  \/ Discover
  \/ ModifyIteration
  \/ ModifyReturn
  \/ AddConfigImages
  \/ GoRenderValuePathTable
  \/ IdentifyImportCandidates
  \/ ImportCharts
  \/ ImportImages
  \/ ChartTableRendered
  \/ ValuePathTableRendered

SpecProgram == InitProgram /\ [][NextProgram]_vars

(* ---------------------------------------------------------------------- *)
(* Properties                                                              *)
(* ---------------------------------------------------------------------- *)

\* the prescan loop has run through all of imgs without returning
ScanLoopFinished == (pc = "scan" /\ k > Len(imgs)) \/ deferred

\* iteration j of the prescan loop has ended without returning
Processed(j) == deferred \/ k > j

\* number of entries of the list l that point to the image i
Entries(l, i) == Cardinality({ x \in 1..Len(l) : Deref(l[x]) = i })

\* C1: once the prescan loop has finished without error, every candidate
\* image has exactly one entry in the push list and the patch list taken
\* together, and the entries of the two lists are pairwise distinct
\* addresses that hold pairwise distinct candidate images.
C1_ExactlyOneDecision ==
  ScanLoopFinished =>
    /\ \A j \in 1..Len(imgs) :
         Entries(patch, imgs[j]) + Entries(push, imgs[j]) = 1
    /\ LET all == patch \o push IN
         \A a, b \in 1..Len(all) :
           a # b => all[a] # all[b] /\ Deref(all[a]) # Deref(all[b])

C1_Witness ==
  /\ ScanLoopFinished
  /\ Len(patch) >= 1
  /\ Len(push) >= 1
  /\ \E x \in 1..Len(push) : Deref(push[x]).Patch = "false"

\* C2: an image whose Patch flag is non-nil and false is never sent to the
\* scanner by the prescan loop and never enters the patch list, and once its
\* iteration has ended without returning it has exactly one entry in the
\* push list, whatever the scanner answers for the other images.
C2_ExcludedIsPushOnly ==
  \A j \in 1..Len(imgs) :
    imgs[j].Patch = "false" =>
      /\ Entries(patch, imgs[j]) = 0
      /\ \A p \in DOMAIN scanReport : Deref(p) # imgs[j]
      /\ Processed(j) => Entries(push, imgs[j]) = 1

C2_Witness ==
  /\ pc = "done"
  /\ err = "nil"
  /\ Len(patch) >= 1
  /\ \E j \in 1..Len(imgs) :
       imgs[j].Patch = "false" /\ Entries(push, imgs[j]) = 1


\* the prescan answered with an OS the patcher does not support, or with no
\* OS-package vulnerability
NothingToPatch(r) == ~SupportedOS(r.OS) \/ ~ContainsOsPkgs(r.Results)

\* C3 as stated: an image whose prescan reports an unsupported OS or no
\* OS-package vulnerability is push-only, is never handed to the patcher, and
\* no patched-archive path is ever written for it.
C3_Original ==
  \A p \in DOMAIN scanReport :
    NothingToPatch(scanReport[p]) =>
      /\ Entries(patch, Deref(p)) = 0
      /\ Entries(push, Deref(p)) = 1
      /\ patcherCall # << >> => p \notin Range(patcherCall[1].Imgs)
      /\ p \notin DOMAIN outFilePaths

\* C3 amended: an image whose prescan reports an unsupported OS or no
\* OS-package vulnerability is push-only, is never among the images handed to
\* the patcher and the patcher produces no archive for it; an archive path is
\* nevertheless computed for it in outFilePaths and handed to the patcher
\* with the map.
C3_PushOnlyNotPatched ==
  \A p \in DOMAIN scanReport :
    NothingToPatch(scanReport[p]) =>
      /\ Entries(patch, Deref(p)) = 0
      /\ Entries(push, Deref(p)) = 1
      /\ p \notin patchDone
      /\ p \notin archived
      /\ patcherCall # << >> =>
           /\ p \notin Range(patcherCall[1].Imgs)
           /\ p \in DOMAIN patcherCall[1].out
           /\ patcherCall[1].out[p] = OutFilePath(Deref(p))
      /\ deferred => p \in DOMAIN outFilePaths

C3_Witness ==
  /\ pc = "done"
  /\ err = "nil"
  /\ archived # {}
  /\ \E p \in DOMAIN scanReport :
       /\ scanReport[p].OS = "windows"
       /\ "os-pkgs" \in scanReport[p].Results
       /\ p \in pushed
       /\ p \notin archived
       /\ p \in DOMAIN outFilePaths

\* the prescan answered with a supported OS and an OS-package vulnerability
NeedsPatch(r) == SupportedOS(r.OS) /\ ContainsOsPkgs(r.Results)

\* C4 as stated: an image that is not excluded and whose prescan reports a
\* supported OS with an OS-package vulnerability is selected for patching,
\* its archive path is passed to the patcher, and when the batch has
\* completed a postscan report for it exists.
C4_Original ==
  \A p \in DOMAIN scanReport :
    NeedsPatch(scanReport[p]) =>
      /\ Entries(patch, Deref(p)) = 1
      /\ Entries(push, Deref(p)) = 0
      /\ patcherCall # << >> =>
           /\ p \in Range(patcherCall[1].Imgs)
           /\ p \in DOMAIN patcherCall[1].out
      /\ (pc = "done" /\ err = "nil") =>
           ReportPostFilePath(Deref(p)) \in files

\* C4 amended: such an image is selected for patching, its archive path is
\* passed to the patcher, and when the batch has completed without error a
\* postscan report has been written for it; the report is still on disk
\* at that point exactly when Reports.Clean is not set.
C4_PatchedAndRescanned ==
  \A p \in DOMAIN scanReport :
    NeedsPatch(scanReport[p]) =>
      /\ Deref(p).Patch # "false"
      /\ Entries(patch, Deref(p)) = 1
      /\ Entries(push, Deref(p)) = 0
      /\ patcherCall # << >> =>
           /\ p \in Range(patcherCall[1].Imgs)
           /\ p \in DOMAIN patcherCall[1].out
           /\ patcherCall[1].out[p] = OutFilePath(Deref(p))
      /\ (pc = "done" /\ err = "nil") =>
           /\ Deref(p) \in rescanned
           /\ ReportPostFilePath(Deref(p)) \in written
           /\ ReportPostFilePath(Deref(p)) \in files <=> ~reportsClean

C4_Witness ==
  /\ pc = "done"
  /\ err = "nil"
  /\ \E p \in DOMAIN scanReport :
       /\ NeedsPatch(scanReport[p])
       /\ p \in archived
       /\ ReportPostFilePath(Deref(p)) \in files
  /\ \E p \in Range(push) : TRUE

\* C5: with the cleanup flags set, no artifact written during the run is
\* left on the filesystem when Program has returned, whatever it returns.
C5_CleanupOnEveryExit ==
  (pc = "done" /\ reportsClean /\ tarsClean) => files \cap written = {}

\* C6: when Program has returned after the cleanup was registered, the
\* reports written by the run are gone exactly when Reports.Clean is set and
\* the archives written by the run are gone exactly when Tars.Clean is set.
C6_CleanupPerKind ==
  (pc = "done" /\ deferred) =>
    /\ \A f \in written :
         f[1] = ReportsFolder => (f \notin files <=> reportsClean)
    /\ \A f \in written :
         f[1] = TarsFolder => (f \notin files <=> tarsClean)


\* the images the addresses of the set ps hold
Held(ps) == { Deref(p) : p \in ps }

\* po.Run has been called and has worked through its images without a fatal
\* failure
PatchStageCompleted ==
  \/ pc \in {"pushPatched", "rescan"}
  \/ pc = "done" /\ patcherCall # << >> /\ err # "patch"

\* C7: every step keeps the order of the stages of each image: the patcher
\* starts on an image only after the prescan report it is given for that
\* image was written, an image of the patch list is copied to the registries
\* only after its patch attempt has ended, an image that is not excluded is
\* copied only after its prescan, an image is sent to the scanner by the
\* rescan loop only after it was copied, and an image is signed only after
\* its postscan report was written.
C7_StageOrderPerImage ==
  [][ /\ \A p \in patchDone' \ patchDone :
           /\ p \in DOMAIN scanReport
           /\ reportFilePaths[p] \in written
      /\ \A p \in archived' \ archived : reportFilePaths[p] \in written
      /\ \A p \in pushed' \ pushed :
           /\ p \in Range(patch) => p \in patchDone
           /\ Deref(p).Patch # "false" => p \in DOMAIN scanReport
      /\ \A i \in rescanSent' \ rescanSent : i \in Held(pushed)
      /\ \A p \in signed' \ signed :
           /\ Deref(p) \in rescanned
           /\ p \in pushed
    ]_vars

C7_Witness ==
  /\ pc = "done"
  /\ err = "nil"
  /\ archived # {}
  /\ Range(push) # {}
  /\ signed = Range(patch) \cup Range(push)
  /\ Held(signed) = rescanned

\* C8 as stated: no image of the batch is copied to a registry before the
\* patch stage has completed, and a fatal patch failure leaves no image
\* copied.
C8_Original ==
  /\ pushed # {} => PatchStageCompleted
  /\ err = "patch" => pushed = {}

\* C8 amended: the prescan loop runs over all candidates first, then the
\* push list is copied, then the patch list is patched, then the patch list
\* is copied: no image of the patch list is copied before the patch stage
\* has completed, while every image of the push list is copied before the
\* patcher is called, so a fatal patch failure leaves exactly the push list
\* copied.
C8_BatchOrder ==
  /\ pushed # {} => deferred
  /\ \A p \in pushed : p \in Range(patch) => PatchStageCompleted
  /\ patcherCall # << >> => Range(push) \subseteq pushed
  /\ err = "patch" => pushed = Range(push)

C8_Witness ==
  /\ pc = "done"
  /\ err = "patch"
  /\ Range(patch) # {}
  /\ pushed = Range(push)
  /\ pushed # {}

\* C9 as stated: the rescan loop sends an image to the scanner if and only if
\* the image was selected for patching.
C9_Original ==
  /\ rescanSent \subseteq Held(Range(patch))
  /\ (pc = "done" /\ err = "nil") => rescanSent = Held(Range(patch))

\* C9 amended: the rescan loop is applied to every candidate image, whether
\* it was selected for patching or not: only candidates are sent to the
\* scanner, and when the batch has got past the rescan loop every candidate,
\* those of the push list and the excluded ones included, was sent to the
\* scanner and had a postscan report written.
C9_RescanAllCandidates ==
  /\ rescanSent \subseteq Range(imgs)
  /\ rescanned \subseteq rescanSent
  /\ (pc = "done" /\ err \in {"nil", "sign"}) =>
       /\ rescanSent = Range(imgs)
       /\ rescanned = Range(imgs)
       /\ \A j \in 1..Len(imgs) : ReportPostFilePath(imgs[j]) \in written

C9_Witness ==
  /\ pc = "done"
  /\ err = "nil"
  /\ Range(patch) # {}
  /\ \E x \in 1..Len(push) :
       /\ Deref(push[x]).Patch = "false"
       /\ Deref(push[x]) \in rescanned

\* the rescan loop has started
RescanReached == rescanSent # {}

\* C10 as stated: whatever the rescan stage answers, a scanner error
\* included, the images copied and the images signed are those of a run whose
\* rescan succeeded: all of them copied and, with Cosign enabled and no
\* failure of the signer, all of them signed.
C10_Original ==
  (pc = "done" /\ RescanReached) =>
    /\ pushed = Range(patch) \cup Range(push)
    /\ (cosignEnabled /\ err # "sign") =>
         signed = Range(patch) \cup Range(push)

\* C10 amended: the content of the postscan reports never changes what is
\* copied or signed, and no outcome of the rescan stage changes what is
\* copied; but a scanner error or a failed report write in the rescan stage
\* makes Program return before signing, so that nothing is signed.
C10_RescanObservational ==
  (pc = "done" /\ RescanReached) =>
    /\ pushed = Range(patch) \cup Range(push)
    /\ err \in {"rescan", "write"} => signed = {}
    /\ err = "nil" =>
         signed = IF cosignEnabled THEN Range(patch) \cup Range(push) ELSE {}
    /\ err \in {"nil", "sign", "rescan", "write"}

C10_Witness ==
  /\ pc = "done"
  /\ err = "rescan"
  /\ cosignEnabled
  /\ rescanned # {}
  /\ pushed = Range(patch) \cup Range(push)
  /\ signed = {}

\* C13: an error of a step ends Program with that error, and no stage that
\* comes after the failing step in program order (prescan loop, import of the
\* push list, patcher, copy of the patched images, rescan loop, signing) has
\* been invoked for any image.
C13_FirstFatalErrorStops ==
  /\ err # "nil" => pc = "done"
  /\ (err \in {"string", "scan"} \/ (err = "write" /\ ~deferred)) =>
       /\ DOMAIN scanReport \subseteq 1..k
       /\ pushed = {} /\ patcherCall = << >> /\ patchDone = {}
       /\ rescanSent = {} /\ signed = {}
  /\ (err = "push" /\ patcherCall = << >>) =>
       patchDone = {} /\ archived = {} /\ rescanSent = {} /\ signed = {}
  /\ err = "patch" =>
       pushed \subseteq Range(push) /\ rescanSent = {} /\ signed = {}
  /\ (err = "push" /\ patcherCall # << >>) =>
       rescanSent = {} /\ signed = {}
  /\ (err = "rescan" \/ (err = "write" /\ deferred)) =>
       /\ rescanSent = { imgs[j] : j \in 1..k }
       /\ signed = {}

C13_Witness ==
  /\ err = "rescan"
  /\ cosignEnabled
  /\ pushed # {}
  /\ archived # {}
  /\ k < Len(imgs)

\* addresses the patcher was called for and produced no archive for
PatchFailed == patchDone \ archived

\* C14: without IgnoreErrors a failure of the patcher ends Program with that
\* error, nothing rescanned and nothing signed; with IgnoreErrors Program
\* never returns a patch error, and an image the patcher failed on is
\* copied to the registries all the same, rescanned and, with Cosign
\* enabled, signed.
C14_PatchFailureFatalUnlessIgnored ==
  /\ ~ignoreErrors =>
       /\ err = "patch" => (pc = "done" /\ rescanSent = {} /\ signed = {})
       /\ (patcherCall # << >> /\ err # "patch") => PatchFailed = {}
  /\ ignoreErrors =>
       /\ err # "patch"
       /\ \A p \in PatchFailed :
            /\ pc = "rescan" => p \in pushed
            /\ (pc = "done" /\ err = "nil") =>
                 /\ p \in pushed
                 /\ imgs[p] \in rescanned
                 /\ cosignEnabled => p \in signed

C14_Witness ==
  /\ ignoreErrors
  /\ cosignEnabled
  /\ pc = "done"
  /\ err = "nil"
  /\ \E p \in PatchFailed : p \in pushed /\ p \in signed /\ imgs[p] \in rescanned

\* the paths below the reports folder among fs
ReportFiles(fs) == { f \in fs : f[1] = ReportsFolder }

\* C19: once the path maps exist, the path the prescan report of a scanned
\* image was written to is the image's entry of reportFilePaths and the path
\* its postscan report was written to is its entry of reportPostFilePaths;
\* every report file written is a path of one of the two maps, and an exit
\* whose cleanup removes the reports leaves no report file behind.
C19_ReportPathsAgree ==
  deferred =>
    /\ \A p \in DOMAIN scanReport :
         /\ p \in DOMAIN reportFilePaths
         /\ PrescanFileName(imgs[p]) = reportFilePaths[p]
    /\ \A i \in rescanned :
         \E p \in DOMAIN reportPostFilePaths :
           /\ imgs[p] = i
           /\ PostscanFileName(i) = reportPostFilePaths[p]
    /\ ReportFiles(written) \subseteq
         Range(reportFilePaths) \cup Range(reportPostFilePaths)
    /\ (pc = "done" /\ reportsClean) => ReportFiles(files) = {}

C19_Witness ==
  /\ pc = "done"
  /\ deferred
  /\ reportsClean
  /\ \E p \in DOMAIN scanReport :
       /\ "/" \in Range(ImageName(imgs[p]))
       /\ reportFilePaths[p] \in written
       /\ reportPostFilePaths[p] \in written
       /\ imgs[p] \in rescanned
  /\ ReportFiles(files) = {}

(* ---------------------------------------------------------------------- *)
(* Exists                                                                  *)
(* ---------------------------------------------------------------------- *)

\* C11: when Exists has returned and exactly one registry's probe failed,
\* that registry's entry of the result is false and the entry of every
\* other registry tells whether that registry holds the image.
C11_OneErrorOthersTrue ==
  (exPc = "returned" /\ Cardinality(probeErr) = 1) =>
    \A j \in 1..Len(registries) :
      /\ registries[j].URL \in DOMAIN m
      /\ m[registries[j].URL] =
           IF j \in probeErr THEN FALSE ELSE registries[j].URL \in present

\* C12 as stated: a probe that does not return leaves the result of every
\* other registry either produced already or still able to be produced.
C12_Original ==
  exPc = "hung" =>
    \/ \A j \in 1..Len(registries) \ {ri} : j \in probed
    \/ ENABLED ExistsProbe

\* C12: Exists probes the registries one at a time in list order: a probe
\* starts only when all the probes before it have returned, a failed probe
\* does not stop the ones after it, and a probe that does not return leaves
\* Exists stuck with no result for any later registry.
C12_OneAtATime ==
  /\ probed = 1..(ri - 1)
  /\ probeErr \subseteq probed
  /\ DOMAIN m = { registries[j].URL : j \in probed }
  /\ exPc = "hung" => ~ENABLED NextExists

C12_Witness ==
  /\ exPc = "hung"
  /\ probeErr # {}
  /\ ri < Len(registries)

\* the result of the closure for the registry at index j, once probed
ProbeResult(j) == j \notin probeErr /\ registries[j].URL \in present

\* C21: when Exists has returned, the result has as many entries as there
\* are registries, and the probe result of every registry is the value
\* found under that registry in the result.
C21_OneEntryPerRegistry ==
  exPc = "returned" =>
    /\ Cardinality(DOMAIN m) = Len(registries)
    /\ \A j \in 1..Len(registries) :
         /\ registries[j].URL \in DOMAIN m
         /\ m[registries[j].URL] = ProbeResult(j)

(* ---------------------------------------------------------------------- *)
(* modify and the detached tasks                                           *)
(* ---------------------------------------------------------------------- *)

\* modify has returned nil and the chart's map is as it left it
ModifyReturnedNil == gPc = "addImages"

\* the keys of the chart's map that carry the value paths of the discovered
\* image j
KeysOf(j) == { p \in DOMAIN cm : cm[p] = j }

\* the discovered image o matches some rule of c.Images.Modify
MatchesModify(o) ==
  \E x \in 1..Len(modifyRules) :
    /\ modifyRules[x].From # << >>
    /\ HasPrefix(ImageString(o), modifyRules[x].From)

\* the image img is o rewritten by one application of one rule (its
\* registry possibly replaced by a mirror afterwards)
OneApplication(o, img) ==
  \E x \in 1..Len(modifyRules) :
    /\ modifyRules[x].From # << >>
    /\ HasPrefix(ImageString(o), modifyRules[x].From)
    /\ LET w == RefToImage(ReplaceFirst(ImageString(o), modifyRules[x].From,
                                        modifyRules[x].To))
       IN /\ img.Repository = w.Repository
          /\ \/ img.Registry = w.Registry
             \/ \E y \in 1..Len(mirrorConfig) :
                  /\ mirrorConfig[y].Registry = w.Registry
                  /\ mirrorConfig[y].Mirror = img.Registry

\* C15: after modify has returned, every discovered image that matched a
\* Modify rule is gone from the map and exactly one image stands in for it,
\* which is the discovered image rewritten by one application of one rule.
C15_RewrittenExactlyOnce ==
  ModifyReturnedNil =>
    \A j \in 1..Len(discovered) :
      MatchesModify(discovered[j]) =>
        /\ j \notin DOMAIN cm
        /\ Cardinality(KeysOf(j)) = 1
        /\ \A p \in KeysOf(j) : OneApplication(discovered[j], heap[p])

\* C17: after modify has returned without error, no discovered image whose
\* reference starts with an Exclude prefix is left in the chart's map, under
\* its own reference or a rewritten one.
C17_ExcludedIsGone ==
  ModifyReturnedNil =>
    \A j \in 1..Len(discovered) :
      (\E x \in 1..Len(exclude) :
         HasPrefix(ImageString(discovered[j]), exclude[x])) => KeysOf(j) = {}

\* C18: after modify has returned without error, no image of the chart's
\* map is at a registry that has a configured mirror.
C18_MirrorsReplaced ==
  ModifyReturnedNil =>
    \A p \in DOMAIN cm :
      \A y \in 1..Len(mirrorConfig) :
        heap[p].Registry # mirrorConfig[y].Registry

\* lines 381 and 419: the collections a running task has been handed
TaskReads ==
  (IF chartTable = "running" THEN {"charts"} ELSE {})
    \cup (IF valuePathTable = "running"
            THEN {"chartImageHelmValuesMap"} ELSE {})

\* lines 270-319 and 415: the collections Program writes where it stands
ProgramWrites ==
  IF gPc \in {"modify", "addImages"} THEN {"chartImageHelmValuesMap"} ELSE {}

\* no task that is running has been handed a collection Program is writing
NoReaderOfWrittenCollection == TaskReads \cap ProgramWrites = {}

\* the chart-table task is running while modify is at work on the map
ChartTableRunsDuringModify ==
  /\ chartTable = "running"
  /\ gPc = "modify"
  /\ visited # {}

\* C20 as stated: when Program has returned, none of its detached tasks is
\* running.
C20_Original ==
  gPc = "returned" => (chartTable # "running" /\ valuePathTable # "running")

\* C20: Program starts the chart-table task once SetupHelm has succeeded and
\* the value-path-table task once modify has returned nil, and never waits
\* for either: as long as it has not returned it can take its next step
\* whatever the tasks are doing, and it can return while a task is running.
C20_TasksNeverJoined ==
  /\ gPc # "returned" => ENABLED ProgramStep
  /\ chartTable = "notStarted" <=>
       (gPc \in {"setupHelm", "goChartTable"}
          \/ (gPc = "returned" /\ gErr = "setupHelm"))
  /\ valuePathTable # "notStarted" <=>
       (gPc \in {"identify", "importCharts", "importImages"}
          \/ (gPc = "returned"
                /\ gErr \in {"nil", "identify", "chartImport", "chartSign",
                             "import"}))

C20_Witness ==
  /\ gPc = "returned"
  /\ gErr = "nil"
  /\ chartTable = "running"
  /\ valuePathTable = "running"

====
